---- MODULE Spec2Model ----
(***************************************************************************)
(* macsmc-charged: a battery charge-behaviour controller (src/main.rs).    *)
(*                                                                         *)
(* The program polls the battery capacity and the charge behaviour of the  *)
(* macsmc-battery power supply and rewrites the charge behaviour according *)
(* to two thresholds.  The model follows main() statement by statement:    *)
(* the startup read, then the loop body get_capacity, get_behaviour,       *)
(* calc_behaviour, the comparison, set_behaviour and the sleep.  The two   *)
(* sysfs files are texts (sequences of characters); parsing and formatting *)
(* are modelled character by character.                                    *)
(***************************************************************************)
EXTENDS Integers, Sequences, FiniteSets, TLC

VARIABLES
    pc,      \* the statement of main() that runs next
    store,   \* text of /sys/class/power_supply/macsmc-battery/charge_behaviour
    cap,     \* local `cap` of the loop body
    be,      \* local `be` of the loop body
    be_new,  \* local `be_new` of the loop body
    log,     \* records emitted since the latest sleep ended (since the start)
    err,     \* the error main() returned with, "none" while it runs
    watch,   \* history: the run of capacities the iterations have observed
    ticks,   \* number of completed loop iterations
    cap_text,    \* the text most recently read from the capacity file, NO_TEXT
                 \* once the battery may have changed it
    band_writes, \* history: writes of the program in the current run of
                 \* readings within the two thresholds
    repeat       \* the capacity file shows this iteration the capacity it
                 \* showed the previous iteration

vars ==
    <<pc, store, cap, be, be_new, log, err, watch, ticks,
      cap_text, band_writes, repeat>>

(***************************************************************************)
(* Constants of the program and bounds of the model.                       *)
(***************************************************************************)
LOW_THRESHOLD == 70
HIGH_THRESHOLD == 80

I8_MIN == -128
I8_MAX == 127

\* How far beyond the i8 range the capacity file's number may lie.
MaxOverflow == 2
\* Loop iterations a behaviour of the model completes.
MaxTicks == 3

I8 == I8_MIN..I8_MAX

\* A local that is not in scope.
NONE == "none"

(***************************************************************************)
(* enum ChargeBehaviour                                                    *)
(***************************************************************************)
Auto == "Auto"
ForceDischarge == "ForceDischarge"
InhibitCharge == "InhibitCharge"

ChargeBehaviour == {Auto, ForceDischarge, InhibitCharge}

(***************************************************************************)
(* Result<T, anyhow::Error>                                                *)
(***************************************************************************)
Ok(v) == [ok |-> TRUE, val |-> v]
Err(e) == [ok |-> FALSE, err |-> e]

\* The capacity file has not been read, or may have changed since: a
\* sequence, as every text is, that is no text of the file.
NO_TEXT == <<NONE>>

(***************************************************************************)
(* Texts.  A text is a sequence of one-character strings.                  *)
(***************************************************************************)
AutoText == <<"a", "u", "t", "o">>
ForceDischargeText ==
    <<"f", "o", "r", "c", "e", "-", "d", "i", "s", "c", "h", "a", "r", "g", "e">>
InhibitChargeText ==
    <<"i", "n", "h", "i", "b", "i", "t", "-", "c", "h", "a", "r", "g", "e">>

\* The characters str::trim removes that occur in the modelled texts.
Whitespace == {" ", "\n", "\t"}

RECURSIVE trim_start(_)
trim_start(s) ==
    IF s # <<>> /\ Head(s) \in Whitespace THEN trim_start(Tail(s)) ELSE s

RECURSIVE trim_end(_)
trim_end(s) ==
    IF s # <<>> /\ s[Len(s)] \in Whitespace
    THEN trim_end(SubSeq(s, 1, Len(s) - 1))
    ELSE s

\* str::trim
trim(s) == trim_end(trim_start(s))

(***************************************************************************)
(* impl Display for ChargeBehaviour / impl FromStr for ChargeBehaviour      *)
(***************************************************************************)
\* Variant of to_string: the texts of ForceDischarge and InhibitCharge are
\* exchanged.
to_string_exchanged(b) ==
    IF b = Auto THEN AutoText
    ELSE IF b = ForceDischarge THEN InhibitChargeText
    ELSE ForceDischargeText

to_string(b) ==
    IF b = Auto THEN AutoText
    ELSE IF b = ForceDischarge THEN ForceDischargeText
    ELSE InhibitChargeText

\* Variant of from_str: the text is matched as it is, without trimming.
from_str_untrimmed(s) ==
    IF s = AutoText THEN Ok(Auto)
    ELSE IF s = ForceDischargeText THEN Ok(ForceDischarge)
    ELSE IF s = InhibitChargeText THEN Ok(InhibitCharge)
    ELSE Err("parse")

from_str(s) ==
    LET t == trim(s) IN
    IF t = AutoText THEN Ok(Auto)
    ELSE IF t = ForceDischargeText THEN Ok(ForceDischarge)
    ELSE IF t = InhibitChargeText THEN Ok(InhibitCharge)
    ELSE Err("parse")

(***************************************************************************)
(* str::parse::<i8>: an optional sign, then one or more decimal digits,    *)
(* the value within the i8 range.                                          *)
(***************************************************************************)
DigitChars == <<"0", "1", "2", "3", "4", "5", "6", "7", "8", "9">>

IsDigit(c) == \E i \in 1..Len(DigitChars) : DigitChars[i] = c

DigitValue(c) == (CHOOSE i \in 1..Len(DigitChars) : DigitChars[i] = c) - 1

RECURSIVE Magnitude(_, _)
Magnitude(s, acc) ==
    IF s = <<>> THEN acc
    ELSE Magnitude(Tail(s), 10 * acc + DigitValue(Head(s)))

\* Variant of parse_i8: the number is parsed as an unsigned 8-bit integer.
parse_u8(s) ==
    LET signed == s # <<>> /\ Head(s) = "+"
        digits == IF signed THEN Tail(s) ELSE s
        n      == Magnitude(digits, 0)
    IN  IF digits = <<>> THEN Err("parse")
        ELSE IF \E i \in 1..Len(digits) : ~IsDigit(digits[i]) THEN Err("parse")
        ELSE IF n > 255 THEN Err("parse")
        ELSE Ok(n)

parse_i8(s) ==
    LET signed == s # <<>> /\ Head(s) \in {"+", "-"}
        digits == IF signed THEN Tail(s) ELSE s
        n      == IF signed /\ Head(s) = "-"
                  THEN 0 - Magnitude(digits, 0)
                  ELSE Magnitude(digits, 0)
    IN  IF digits = <<>> THEN Err("parse")
        ELSE IF \E i \in 1..Len(digits) : ~IsDigit(digits[i]) THEN Err("parse")
        ELSE IF n < I8_MIN \/ n > I8_MAX THEN Err("parse")
        ELSE Ok(n)

(***************************************************************************)
(* What the two sysfs files can hold.                                      *)
(***************************************************************************)
RECURSIVE Digits(_)
Digits(n) ==
    IF n < 10 THEN <<DigitChars[n + 1]>>
    ELSE Digits(n \div 10) \o <<DigitChars[(n % 10) + 1]>>

\* The decimal text of an integer, as the kernel prints it.
Decimal(n) == IF n < 0 THEN <<"-">> \o Digits(0 - n) ELSE Digits(n)

\* Numbers the capacity file may show: the i8 range and a little beyond it.
CapacityNumbers == (I8_MIN - MaxOverflow)..(I8_MAX + MaxOverflow)

\* Texts of the capacity file: a number followed by a newline, a bare
\* number, and texts that are no number.
CapacityTexts ==
    {Decimal(n) \o <<"\n">> : n \in CapacityNumbers}
        \cup {Decimal(n) : n \in {0, 75, 100}}
        \cup {<<>>, <<"\n">>, <<"-">>, <<"+", "7", "5">>, <<"7", "5", "%">>,
              <<"7", " ", "5">>}

\* Texts of the charge_behaviour file: the three canonical texts, bare and
\* surrounded by whitespace, and texts that are no behaviour.
BehaviourTexts ==
    {to_string(b) : b \in ChargeBehaviour}
        \cup {to_string(b) \o <<"\n">> : b \in ChargeBehaviour}
        \cup {<<" ", "\t">> \o InhibitChargeText \o <<" ">>}
        \cup {<<>>, <<"A", "u", "t", "o">>, <<"a", "u", " ", "t", "o">>,
              <<"a", "u", "t", "o", "!">>}

(***************************************************************************)
(* fn calc_behaviour(cap: i8, cb: &ChargeBehaviour) -> ChargeBehaviour     *)
(* The match arms in order, the first arm that matches decides.            *)
(***************************************************************************)
\* Variants of calc_behaviour, each with one slip in an arm.
\* The first arm answers with the wrong variant.
calc_behaviour_inhibit_above(c, cb) ==
    IF c > HIGH_THRESHOLD THEN InhibitCharge
    ELSE IF c < LOW_THRESHOLD THEN Auto
    ELSE IF cb = Auto /\ c < HIGH_THRESHOLD THEN Auto
    ELSE IF cb = ForceDischarge /\ c < HIGH_THRESHOLD THEN InhibitCharge
    ELSE InhibitCharge

\* The LOW_THRESHOLD arm comes after the arms that look at the behaviour.
calc_behaviour_low_arm_late(c, cb) ==
    IF c > HIGH_THRESHOLD THEN ForceDischarge
    ELSE IF cb = Auto /\ c < HIGH_THRESHOLD THEN Auto
    ELSE IF cb = ForceDischarge /\ c < HIGH_THRESHOLD THEN InhibitCharge
    ELSE IF c < LOW_THRESHOLD THEN Auto
    ELSE InhibitCharge

\* The Auto arm compares with <= instead of <.
calc_behaviour_auto_le_high(c, cb) ==
    IF c > HIGH_THRESHOLD THEN ForceDischarge
    ELSE IF c < LOW_THRESHOLD THEN Auto
    ELSE IF cb = Auto /\ c <= HIGH_THRESHOLD THEN Auto
    ELSE IF cb = ForceDischarge /\ c < HIGH_THRESHOLD THEN InhibitCharge
    ELSE InhibitCharge

\* The Auto arm is missing.
calc_behaviour_no_auto_arm(c, cb) ==
    IF c > HIGH_THRESHOLD THEN ForceDischarge
    ELSE IF c < LOW_THRESHOLD THEN Auto
    ELSE IF cb = ForceDischarge /\ c < HIGH_THRESHOLD THEN InhibitCharge
    ELSE InhibitCharge

\* The LOW_THRESHOLD arm compares with <= instead of <.
calc_behaviour_low_le(c, cb) ==
    IF c > HIGH_THRESHOLD THEN ForceDischarge
    ELSE IF c <= LOW_THRESHOLD THEN Auto
    ELSE IF cb = Auto /\ c < HIGH_THRESHOLD THEN Auto
    ELSE IF cb = ForceDischarge /\ c < HIGH_THRESHOLD THEN InhibitCharge
    ELSE InhibitCharge

\* The ForceDischarge arm resumes charging instead of inhibiting it.
calc_behaviour_resume(c, cb) ==
    IF c > HIGH_THRESHOLD THEN ForceDischarge
    ELSE IF c < LOW_THRESHOLD THEN Auto
    ELSE IF cb = Auto /\ c < HIGH_THRESHOLD THEN Auto
    ELSE IF cb = ForceDischarge /\ c < HIGH_THRESHOLD THEN Auto
    ELSE InhibitCharge

\* The catch-all arm gives up the hold below HIGH_THRESHOLD.
calc_behaviour_no_hold(c, cb) ==
    IF c > HIGH_THRESHOLD THEN ForceDischarge
    ELSE IF c < LOW_THRESHOLD THEN Auto
    ELSE IF cb = Auto /\ c < HIGH_THRESHOLD THEN Auto
    ELSE IF cb = ForceDischarge /\ c < HIGH_THRESHOLD THEN InhibitCharge
    ELSE IF c < HIGH_THRESHOLD THEN Auto
    ELSE InhibitCharge

\* The results of the Auto arm and the ForceDischarge arm are exchanged.
calc_behaviour_exchanged_arms(c, cb) ==
    IF c > HIGH_THRESHOLD THEN ForceDischarge
    ELSE IF c < LOW_THRESHOLD THEN Auto
    ELSE IF cb = Auto /\ c < HIGH_THRESHOLD THEN InhibitCharge
    ELSE IF cb = ForceDischarge /\ c < HIGH_THRESHOLD THEN Auto
    ELSE InhibitCharge

calc_behaviour(c, cb) ==
    IF c > HIGH_THRESHOLD THEN ForceDischarge
    ELSE IF c < LOW_THRESHOLD THEN Auto
    ELSE IF cb = Auto /\ c < HIGH_THRESHOLD THEN Auto
    ELSE IF cb = ForceDischarge /\ c < HIGH_THRESHOLD THEN InhibitCharge
    ELSE InhibitCharge

(***************************************************************************)
(* The run of capacities observed so far, as far as the thresholds tell:   *)
(*   "idle"       no reading above HIGH_THRESHOLD since the last reading   *)
(*                below LOW_THRESHOLD (or since the start)                 *)
(*   "discharge"  the latest reading is above HIGH_THRESHOLD               *)
(*   "at_max"     readings above HIGH_THRESHOLD, then only readings equal  *)
(*                to HIGH_THRESHOLD                                        *)
(*   "hold"       after a reading above HIGH_THRESHOLD, readings in        *)
(*                LOW_THRESHOLD..HIGH_THRESHOLD with one below             *)
(*                HIGH_THRESHOLD among them                                *)
(***************************************************************************)
\* Whether a capacity lies within the two thresholds, both included.
InBand(c) == LOW_THRESHOLD <= c /\ c <= HIGH_THRESHOLD

Observe(w, c) ==
    IF c > HIGH_THRESHOLD THEN "discharge"
    ELSE IF c < LOW_THRESHOLD THEN "idle"
    ELSE IF w = "idle" THEN "idle"
    ELSE IF c = HIGH_THRESHOLD /\ w \in {"discharge", "at_max"} THEN "at_max"
    ELSE "hold"

(***************************************************************************)
(* Log records.                                                            *)
(***************************************************************************)
\* info!("Starting up. Current charge behaviour is {}", ...)
StartupRecord(b) == [level |-> "info", msg |-> "starting", be |-> b]

\* debug!("Battery capacity {cap}, behaviour {be}")
ObservedRecord(c, b) == [level |-> "debug", msg |-> "observed", cap |-> c, be |-> b]

\* info!("Setting new charge behaviour: {be_new}. Old was {be}. battery at {cap}% . ")
SettingRecord(bn, b, c) ==
    [level |-> "info", msg |-> "setting", be_new |-> bn, be |-> b, cap |-> c]

(***************************************************************************)
(* The fallible operations, each given whether the file access succeeds.   *)
(***************************************************************************)
\* s.trim().parse::<i8>() for each text of the capacity file, worked out
\* once.
ParsedCapacity == [t \in CapacityTexts |-> parse_i8(trim(t))]

\* fn get_capacity(): read the file, trim, parse as i8.
get_capacity(io_ok, text) ==
    IF ~io_ok THEN Err("io") ELSE ParsedCapacity[text]

\* fn get_behaviour(): read the file, parse as ChargeBehaviour.
get_behaviour(io_ok) ==
    IF ~io_ok THEN Err("io") ELSE from_str(store)

\* Variant of Abort: the error is noted and the iteration skipped.
AbortSkipsTick(e) ==
    /\ pc' = "sleep"
    /\ err' = e
    /\ cap' = NONE
    /\ be' = NONE
    /\ be_new' = NONE
    /\ UNCHANGED <<log, watch, ticks, band_writes, repeat>>

\* The `?` operator on an Err: main() returns the error, its locals go out
\* of scope and nothing more runs.
Abort(e) ==
    /\ pc' = "exit_err"
    /\ err' = e
    /\ cap' = NONE
    /\ be' = NONE
    /\ be_new' = NONE
    /\ UNCHANGED <<log, watch, ticks, band_writes, repeat>>

(***************************************************************************)
(* main()                                                                  *)
(***************************************************************************)
Init ==
    /\ pc = "startup"
    /\ store \in BehaviourTexts
    /\ cap = NONE
    /\ be = NONE
    /\ be_new = NONE
    /\ log = <<>>
    /\ err = "none"
    /\ watch = "idle"
    /\ ticks = 0
    /\ cap_text = NO_TEXT
    /\ band_writes = 0
    /\ repeat = FALSE

\* Variant of Startup: the behaviour that was read is written back in its
\* canonical text.
StartupWritesBack ==
    /\ pc = "startup"
    /\ \E io_ok \in BOOLEAN :
          LET r == get_behaviour(io_ok) IN
          IF r.ok
          THEN /\ log' = Append(log, StartupRecord(r.val))
               /\ pc' = "get_capacity"
               /\ store' = to_string(r.val)
               /\ UNCHANGED <<cap, be, be_new, err, watch, ticks, band_writes, repeat>>
          ELSE Abort(r.err) /\ UNCHANGED store
    /\ UNCHANGED cap_text

\* info!("Starting up. Current charge behaviour is {}", get_behaviour()?);
Startup ==
    /\ pc = "startup"
    /\ \E io_ok \in BOOLEAN :
          LET r == get_behaviour(io_ok) IN
          IF r.ok
          THEN /\ log' = Append(log, StartupRecord(r.val))
               /\ pc' = "get_capacity"
               /\ UNCHANGED <<cap, be, be_new, err, watch, ticks, band_writes, repeat>>
          ELSE Abort(r.err)
    /\ UNCHANGED store
    /\ UNCHANGED cap_text

\* The texts the capacity file can hold when it is read: if the battery
\* still reports the capacity it reported to the previous iteration, the
\* texts of that capacity, else any text.
CapacityFileNow ==
    IF repeat
    THEN {t \in CapacityTexts : ParsedCapacity[t] = ParsedCapacity[cap_text]}
    ELSE CapacityTexts

\* let cap = get_capacity()?;
GetCapacity ==
    /\ pc = "get_capacity"
    /\ \E io_ok \in BOOLEAN :
       \E text \in IF io_ok THEN CapacityFileNow ELSE {cap_text} :
          LET r == get_capacity(io_ok, text) IN
          /\ cap_text' = text
          /\ IF r.ok
             THEN /\ cap' = r.val
                  /\ watch' = Observe(watch, r.val)
                  /\ band_writes' = IF InBand(r.val) THEN band_writes ELSE 0
                  /\ pc' = "get_behaviour"
                  /\ UNCHANGED <<be, be_new, log, err, ticks, repeat>>
             ELSE Abort(r.err)
    /\ UNCHANGED store

\* Variant of GetBehaviour: the first iteration takes the behaviour that was
\* read at startup instead of reading the file again.
GetBehaviourFromStartup ==
    /\ pc = "get_behaviour"
    /\ \E io_ok \in BOOLEAN :
          LET r == IF ticks = 0 THEN Ok(log[1].be) ELSE get_behaviour(io_ok) IN
          IF r.ok
          THEN /\ be' = r.val
               /\ pc' = "calc_behaviour"
               /\ UNCHANGED <<cap, be_new, log, err, watch, ticks, band_writes, repeat>>
          ELSE Abort(r.err)
    /\ UNCHANGED store
    /\ UNCHANGED cap_text

\* let be = get_behaviour()?;
GetBehaviour ==
    /\ pc = "get_behaviour"
    /\ \E io_ok \in BOOLEAN :
          LET r == get_behaviour(io_ok) IN
          IF r.ok
          THEN /\ be' = r.val
               /\ pc' = "calc_behaviour"
               /\ UNCHANGED <<cap, be_new, log, err, watch, ticks, band_writes, repeat>>
          ELSE Abort(r.err)
    /\ UNCHANGED store
    /\ UNCHANGED cap_text

\* Variant of Calc: the decision is taken from the file as it is now, not
\* from the behaviour read into `be`.
CalcRereadsStore ==
    /\ pc = "calc_behaviour"
    /\ be_new' = IF from_str(store).ok
                 THEN calc_behaviour(cap, from_str(store).val)
                 ELSE calc_behaviour(cap, be)
    /\ log' = Append(log, ObservedRecord(cap, be))
    /\ pc' = "compare"
    /\ UNCHANGED <<store, cap, be, err, watch, ticks>>
    /\ UNCHANGED <<cap_text, band_writes, repeat>>

\* let be_new = calc_behaviour(cap, &be);
\* debug!("Battery capacity {cap}, behaviour {be}");
Calc ==
    /\ pc = "calc_behaviour"
    /\ be_new' = calc_behaviour(cap, be)
    /\ log' = Append(log, ObservedRecord(cap, be))
    /\ pc' = "compare"
    /\ UNCHANGED <<store, cap, be, err, watch, ticks>>
    /\ UNCHANGED <<cap_text, band_writes, repeat>>

\* Variant of Compare: the new behaviour is written whether it differs or not.
CompareAlwaysWrites ==
    /\ pc = "compare"
    /\ log' = Append(log, SettingRecord(be_new, be, cap))
    /\ pc' = "set_behaviour"
    /\ UNCHANGED <<store, cap, be, be_new, err, watch, ticks>>
    /\ UNCHANGED <<cap_text, band_writes, repeat>>

\* Variant of Compare: the unchanged observation is recorded in the else
\* branch as well.
CompareDebugOnUnchanged ==
    /\ pc = "compare"
    /\ IF be # be_new
       THEN /\ log' = Append(log, SettingRecord(be_new, be, cap))
            /\ pc' = "set_behaviour"
       ELSE /\ log' = Append(log, ObservedRecord(cap, be))
            /\ pc' = "sleep"
    /\ UNCHANGED <<store, cap, be, be_new, err, watch, ticks>>
    /\ UNCHANGED <<cap_text, band_writes, repeat>>

\* Variant of Compare: the change is not recorded before the write.
CompareNoRecord ==
    /\ pc = "compare"
    /\ IF be # be_new
       THEN /\ log' = log
            /\ pc' = "set_behaviour"
       ELSE /\ log' = log
            /\ pc' = "sleep"
    /\ UNCHANGED <<store, cap, be, be_new, err, watch, ticks>>
    /\ UNCHANGED <<cap_text, band_writes, repeat>>

\* if be != be_new { info!("Setting new charge behaviour: ..."); ... }
Compare ==
    /\ pc = "compare"
    /\ IF be # be_new
       THEN /\ log' = Append(log, SettingRecord(be_new, be, cap))
            /\ pc' = "set_behaviour"
       ELSE /\ log' = log
            /\ pc' = "sleep"
    /\ UNCHANGED <<store, cap, be, be_new, err, watch, ticks>>
    /\ UNCHANGED <<cap_text, band_writes, repeat>>

\* Variant of SetBehaviour: the behaviour that was read is written back.
SetBehaviourWritesOld ==
    /\ pc = "set_behaviour"
    /\ \/ /\ store' = to_string(be)
          /\ pc' = "sleep"
          /\ band_writes' = IF InBand(cap) THEN band_writes + 1 ELSE band_writes
          /\ UNCHANGED <<cap, be, be_new, log, err, watch, ticks, repeat>>
       \/ /\ store' \in {store, <<>>}
          /\ Abort("io")
    /\ UNCHANGED cap_text

\* set_behaviour(be_new)?;  fs::write opens the file truncating it and then
\* writes the text: it fails before the file is touched, or between the
\* truncation and the write, or it succeeds.
SetBehaviour ==
    /\ pc = "set_behaviour"
    /\ \/ /\ store' = to_string(be_new)
          /\ pc' = "sleep"
          /\ band_writes' = IF InBand(cap) THEN band_writes + 1 ELSE band_writes
          /\ UNCHANGED <<cap, be, be_new, log, err, watch, ticks, repeat>>
       \/ /\ store' \in {store, <<>>}
          /\ Abort("io")
    /\ UNCHANGED cap_text

\* Variant of Sleep: the loop is left after the sleep.
SleepLeavesLoop ==
    /\ pc = "sleep"
    /\ ticks < MaxTicks
    /\ ticks' = ticks + 1
    /\ pc' = "exit_ok"
    /\ cap' = NONE
    /\ be' = NONE
    /\ be_new' = NONE
    /\ log' = <<>>
    /\ \E same \in BOOLEAN :
          /\ repeat' = same
          /\ cap_text' = IF same THEN cap_text ELSE NO_TEXT
    /\ UNCHANGED <<store, err, watch, band_writes>>

\* sleep(Duration::from_secs(60)); the loop body ends and its locals with it.
\* While the program sleeps the battery either keeps its capacity or changes
\* it to one the model does not know yet.
Sleep ==
    /\ pc = "sleep"
    /\ ticks < MaxTicks
    /\ ticks' = ticks + 1
    /\ pc' = "get_capacity"
    /\ cap' = NONE
    /\ be' = NONE
    /\ be_new' = NONE
    /\ log' = <<>>
    /\ \E same \in BOOLEAN :
          /\ repeat' = same
          /\ cap_text' = IF same THEN cap_text ELSE NO_TEXT
    /\ UNCHANGED <<store, err, watch, band_writes>>

\* Somebody else writes the charge_behaviour file while the program runs.
ExternalWrite ==
    /\ pc # "exit_err"
    /\ \E text \in BehaviourTexts :
          /\ text # store
          /\ store' = text
    /\ UNCHANGED <<pc, cap, be, be_new, log, err, watch, ticks>>
    /\ UNCHANGED <<cap_text, band_writes, repeat>>

\* The program alone.
SoloNext ==
    \/ Startup
    \/ GetCapacity
    \/ GetBehaviour
    \/ Calc
    \/ Compare
    \/ SetBehaviour
    \/ Sleep

\* The program and the other writers of the charge_behaviour file.
Next ==
    \/ SoloNext
    \/ ExternalWrite

Spec == Init /\ [][Next]_vars

SoloSpec == Init /\ [][SoloNext]_vars

\* The program alone, which as the only thread of its process always takes
\* its next step when it has one.
LiveSpec == SoloSpec /\ WF_vars(SoloNext)

(***************************************************************************)
(* Properties.                                                             *)
(***************************************************************************)
\* The statements of the loop body at which `be_new` holds the decision.
Decided == pc \in {"compare", "set_behaviour", "sleep"}

\* The behaviour the charge_behaviour file holds, as get_behaviour reads it.
StoredBehaviour == from_str(store)

\* C1: for every capacity c with 80 < c <= 127 and every current behaviour,
\* calc_behaviour(c, current) is ForceDischarge.
C1_AboveHighForceDischarge ==
    (Decided /\ 80 < cap /\ cap <= 127) => be_new = ForceDischarge

C1_Witness ==
    /\ pc = "compare"
    /\ cap = 81
    /\ be = InhibitCharge
    /\ be_new = ForceDischarge

\* C2: for every capacity c with -128 <= c < 70 and every current behaviour,
\* calc_behaviour(c, current) is Auto.
C2_BelowLowAuto ==
    (Decided /\ -128 <= cap /\ cap < 70) => be_new = Auto

C2_Witness ==
    /\ pc = "set_behaviour"
    /\ cap = 69
    /\ be = ForceDischarge
    /\ be_new = Auto

\* C3: for a capacity c in 70..80 and current behaviour Auto, calc_behaviour
\* is Auto when c < 80 and InhibitCharge when c = 80.
C3_BandFromAuto ==
    (Decided /\ 70 <= cap /\ cap <= 80 /\ be = Auto)
        => be_new = (IF cap < 80 THEN Auto ELSE InhibitCharge)

C3_Witness ==
    /\ pc = "set_behaviour"
    /\ cap = 80
    /\ be = Auto
    /\ be_new = InhibitCharge

\* C4 as stated: for every capacity c in 70..80, both bounds included, and
\* current behaviour Auto, calc_behaviour is Auto.
C4_Original ==
    (Decided /\ 70 <= cap /\ cap <= 80 /\ be = Auto) => be_new = Auto

\* C4 as amended: for a capacity c with 70 <= c < 80 and current behaviour
\* Auto, calc_behaviour is Auto; in the band 70..80 a current behaviour other
\* than InhibitCharge leads into InhibitCharge exactly when it is
\* ForceDischarge or the capacity is exactly 80.
C4_BandAutoBelowHigh ==
    (Decided /\ 70 <= cap /\ cap <= 80 /\ be # InhibitCharge)
        => /\ (be = Auto /\ cap < 80) => be_new = Auto
           /\ be_new = InhibitCharge <=> (be = ForceDischarge \/ cap = 80)

C4_Witness ==
    /\ pc = "sleep"
    /\ cap = 79
    /\ be = Auto
    /\ be_new = Auto

\* C5: for every capacity c in 70..80, both bounds included, and current
\* behaviour ForceDischarge or InhibitCharge, calc_behaviour is
\* InhibitCharge; a reading of exactly 70 does not give Auto.
C5_BandFromDischargeOrInhibit ==
    (Decided /\ 70 <= cap /\ cap <= 80 /\ be \in {ForceDischarge, InhibitCharge})
        => be_new = InhibitCharge

C5_Witness ==
    /\ pc = "set_behaviour"
    /\ cap = 70
    /\ be = ForceDischarge
    /\ be_new = InhibitCharge

\* The decision as the table of capacity ranges and behaviours gives it.
DecisionTable(c, b) ==
    IF c > 80 THEN ForceDischarge
    ELSE IF c < 70 THEN Auto
    ELSE IF b = Auto /\ c # 80 THEN Auto
    ELSE InhibitCharge

\* C6: calc_behaviour is total and deterministic over the i8 range: the step
\* that evaluates it is taken with a capacity in -128..127 and one of the
\* three behaviours, yields one of the three behaviours, the one the pair
\* (capacity, behaviour read) determines whatever the file holds by then,
\* and leaves the file and the pair as they were.
C6_CalcTotalDeterministicPure ==
    [][(pc = "calc_behaviour" /\ pc' # pc)
          => /\ cap \in I8
             /\ be \in ChargeBehaviour
             /\ be_new' \in ChargeBehaviour
             /\ be_new' = DecisionTable(cap, be)
             /\ store' = store
             /\ cap' = cap
             /\ be' = be]_vars

\* The file says ForceDischarge by the time of the decision, the behaviour
\* read was Auto: the decision is the one for Auto.
C6_Witness ==
    /\ pc = "compare"
    /\ cap = 75
    /\ be = Auto
    /\ store = ForceDischargeText
    /\ be_new = Auto

\* C7: in every iteration the program writes the file if and only if the
\* computed behaviour differs from the behaviour read; when they are equal
\* the iteration goes on to the sleep and leaves the file as it is, when
\* they differ the text written is that of the computed behaviour; no other
\* step of the program changes the file.
C7_WriteIffChanged ==
    /\ [][(pc = "compare" /\ pc' # pc)
             => IF be = be_new
                THEN pc' = "sleep" /\ store' = store
                ELSE pc' = "set_behaviour"]_vars
    /\ [][(pc = "set_behaviour" /\ pc' = "sleep")
             => store' = to_string(be_new) /\ be # be_new]_vars
    /\ [][(pc' # pc /\ store' # store) => pc = "set_behaviour"]_vars

C7_Witness ==
    /\ pc = "sleep"
    /\ be = Auto
    /\ be_new = ForceDischarge
    /\ store = ForceDischargeText

\* C8: a failure of get_capacity, get_behaviour or set_behaviour ends the
\* program with an error at once: the failing step emits no record and
\* completes no iteration, a failed read leaves the file as it was, and
\* once the program has ended nothing changes any more.
C8_FailureTerminates ==
    /\ [][(err = "none" /\ err' # "none")
             => /\ pc' = "exit_err"
                /\ err' \in {"io", "parse"}
                /\ log' = log
                /\ ticks' = ticks
                /\ (pc # "set_behaviour" => store' = store)]_vars
    /\ [][pc = "exit_err" => UNCHANGED vars]_vars
    /\ [](pc = "exit_err" <=> err # "none")

C8_Witness ==
    /\ pc = "exit_err"
    /\ err = "parse"
    /\ ticks = 1
    /\ Len(log) = 0

\* C9 as stated: once an iteration observes a capacity above 80 the file
\* holds ForceDischarge after it and after every following iteration until
\* one observes a capacity under 80; from then on it holds InhibitCharge
\* for as long as the readings stay at or above 70.
C9_Original ==
    pc = "sleep"
        => /\ watch \in {"discharge", "at_max"}
                 => StoredBehaviour = Ok(ForceDischarge)
           /\ watch = "hold" => StoredBehaviour = Ok(InhibitCharge)

\* C9 as amended: once an iteration observes a capacity above 80 the file
\* holds ForceDischarge after it and after every following iteration until
\* one observes a capacity of 80 or less; from then on it holds
\* InhibitCharge for as long as the readings stay within 70..80.
C9_DischargeThenHold ==
    pc = "sleep"
        => /\ watch = "discharge" => StoredBehaviour = Ok(ForceDischarge)
           /\ watch \in {"at_max", "hold"} => StoredBehaviour = Ok(InhibitCharge)

C9_Witness ==
    /\ pc = "sleep"
    /\ watch = "at_max"
    /\ cap = 80
    /\ be = ForceDischarge
    /\ store = InhibitChargeText

\* C10: with the program as the only writer, after every completed
\* iteration the file holds calc_behaviour(capacity read, behaviour read):
\* ForceDischarge when that capacity is above 80, Auto when it is below 70.
C10_StoreFollowsDecision ==
    pc = "sleep"
        => /\ StoredBehaviour = Ok(calc_behaviour(cap, be))
           /\ cap > 80 => StoredBehaviour = Ok(ForceDischarge)
           /\ cap < 70 => StoredBehaviour = Ok(Auto)

C10_Witness ==
    /\ pc = "sleep"
    /\ cap = 69
    /\ be = InhibitCharge
    /\ store = AutoText

\* The records the current iteration has emitted: in the first iteration
\* the log still starts with the startup record.
TickRecords == IF ticks = 0 THEN Tail(log) ELSE log

\* C11 as stated: each iteration emits exactly one record, a debug record
\* when the behaviour is unchanged and an informational record when it
\* changed; an iteration that changes the behaviour emits no debug record.
C11_Original ==
    pc = "sleep"
        => /\ Len(TickRecords) = 1
           /\ TickRecords[1].level = (IF be = be_new THEN "debug" ELSE "info")

\* C11 as amended: each iteration that reaches the decision emits the debug
\* record of the observation (capacity, behaviour read); an iteration that
\* changes the behaviour emits after it the informational record (new
\* behaviour, old behaviour, capacity), an iteration that leaves the
\* behaviour unchanged emits nothing else.
C11_DebugThenInfoOnChange ==
    pc = "sleep"
        => TickRecords =
              IF be = be_new
              THEN <<[level |-> "debug", msg |-> "observed", cap |-> cap, be |-> be]>>
              ELSE <<[level |-> "debug", msg |-> "observed", cap |-> cap, be |-> be],
                     [level |-> "info", msg |-> "setting", be_new |-> be_new,
                      be |-> be, cap |-> cap]>>

C11_Witness ==
    /\ pc = "sleep"
    /\ be = Auto
    /\ be_new = InhibitCharge
    /\ Len(TickRecords) = 2
    /\ TickRecords[1].level = "debug"
    /\ TickRecords[2].level = "info"

\* The canonical text of each behaviour, letter by letter.
CanonicalText(b) ==
    CASE b = Auto -> <<"a", "u", "t", "o">>
      [] b = ForceDischarge ->
            <<"f", "o", "r", "c", "e", "-", "d", "i", "s", "c", "h", "a", "r", "g", "e">>
      [] b = InhibitCharge ->
            <<"i", "n", "h", "i", "b", "i", "t", "-", "c", "h", "a", "r", "g", "e">>

\* C12: to_string and from_str are inverse: the text set_behaviour has
\* written for a behaviour is its canonical text ("auto", "force-discharge",
\* "inhibit-charge") and parses back to that behaviour, and the behaviour
\* get_behaviour has parsed from a canonical text formats to that text.
C12_RoundTrip ==
    /\ (pc = "sleep" /\ be # be_new)
          => /\ store = CanonicalText(be_new)
             /\ from_str(store) = Ok(be_new)
    /\ (pc = "calc_behaviour" /\ store \in {CanonicalText(b) : b \in ChargeBehaviour})
          => to_string(be) = store

\* The third iteration parses the text the second iteration wrote.
C12_Witness ==
    /\ pc = "calc_behaviour"
    /\ ticks = 2
    /\ watch = "at_max"
    /\ store = CanonicalText(InhibitCharge)
    /\ be = InhibitCharge

\* C13: reading the behaviour succeeds exactly when the text of the file,
\* with leading and trailing whitespace trimmed, is "auto", "force-discharge"
\* or "inhibit-charge" in exactly that case (a failing file access apart);
\* any other text is a parse error that ends the program and leaves the
\* file as it was.
C13_ParseExactlyCanonical ==
    [][(pc \in {"startup", "get_behaviour"} /\ pc' # pc)
          => LET canonical ==
                     trim(store) \in {CanonicalText(b) : b \in ChargeBehaviour}
             IN  /\ pc' # "exit_err" => canonical
                 /\ pc' = "calc_behaviour" => CanonicalText(be') = trim(store)
                 /\ canonical => (pc' # "exit_err" \/ err' = "io")
                 /\ ~canonical
                       => /\ pc' = "exit_err"
                          /\ err' \in {"parse", "io"}
                          /\ store' = store
                 /\ err' = "parse" => ~canonical]_vars

\* The first iteration has read a capacity above 80 and then finds "Auto",
\* with a capital letter, in the file.
C13_Witness ==
    /\ pc = "exit_err"
    /\ err = "parse"
    /\ ticks = 0
    /\ watch = "discharge"
    /\ store = <<"A", "u", "t", "o">>

\* C14: the loop never stops on its own: short of a failure every
\* iteration reaches its sleep and every sleep is followed by the next
\* iteration (up to the MaxTicks iterations a behaviour of the model
\* completes); the program always has a next step unless it has ended with
\* an error, and it ends only with an error of a read or a write.
C14_LoopNeverStops ==
    /\ [](pc \in {"startup", "get_capacity", "get_behaviour", "calc_behaviour",
                  "compare", "set_behaviour", "sleep", "exit_err"})
    /\ []((pc # "exit_err" /\ ~(pc = "sleep" /\ ticks = MaxTicks))
             => ENABLED SoloNext)
    /\ (pc = "get_capacity") ~> (pc = "sleep" \/ pc = "exit_err")
    /\ (pc = "sleep" /\ ticks < MaxTicks) ~> (pc = "get_capacity")
    /\ [][pc' = "exit_err"
             => /\ err' \in {"io", "parse"}
                /\ pc \in {"startup", "get_capacity", "get_behaviour",
                           "set_behaviour", "exit_err"}]_vars

\* A third iteration begins after two completed ones.
C14_Witness ==
    /\ pc = "get_capacity"
    /\ ticks = 2
    /\ err = "none"

\* The text of the capacity file when the battery reports the number n.
ReadingText(n) == Decimal(n) \o <<"\n">>

\* C15 as stated: for every integer reading that is negative or greater
\* than 100, get_capacity succeeds with that number and the iteration goes
\* on.
C15_Original ==
    [][(pc = "get_capacity" /\ pc' # pc /\ err' # "io")
          => \A n \in CapacityNumbers :
                ((n < 0 \/ n > 100) /\ cap_text' = ReadingText(n))
                    => (pc' = "get_behaviour" /\ cap' = n)]_vars

\* C15 as amended: a reading that is negative or greater than 100 is not
\* rejected as long as it is in -128..127: get_capacity succeeds with that
\* number, the iteration goes on and decides by the threshold comparisons
\* (Auto for a negative capacity, ForceDischarge for one above 100); a
\* reading below -128 or above 127 is a parse error that ends the program.
C15_OutOfDomainWithinI8 ==
    /\ [][(pc = "get_capacity" /\ pc' # pc /\ err' # "io")
             => \A n \in CapacityNumbers :
                   cap_text' = ReadingText(n)
                       => IF -128 <= n /\ n <= 127
                          THEN pc' = "get_behaviour" /\ cap' = n
                          ELSE pc' = "exit_err" /\ err' = "parse"]_vars
    /\ []((Decided /\ cap < 0) => be_new = Auto)
    /\ []((Decided /\ cap > 100) => be_new = ForceDischarge)

C15_Witness ==
    /\ pc = "sleep"
    /\ cap_text = ReadingText(-128)
    /\ cap = -128
    /\ be = InhibitCharge
    /\ be_new = Auto

\* C16: at startup the program reads the behaviour once and emits exactly
\* one informational record, which reports it, before the first iteration;
\* the startup writes nothing, and when its read fails the program ends
\* before any capacity is read, any iteration begun or anything written.
C16_StartupRecord ==
    /\ [](pc = "startup" => (log = <<>> /\ ticks = 0))
    /\ [][(pc = "startup" /\ pc' # pc)
             => /\ store' = store
                /\ IF pc' = "get_capacity"
                   THEN /\ Len(log') = 1
                        /\ log'[1].level = "info"
                        /\ log'[1].msg = "starting"
                        /\ CanonicalText(log'[1].be) = trim(store)
                   ELSE /\ pc' = "exit_err"
                        /\ log' = <<>>
                /\ cap_text' = cap_text
                /\ ticks' = 0
                /\ cap' = cap]_vars
    /\ []((pc = "exit_err" /\ ticks = 0 /\ log = <<>>) => cap_text = NO_TEXT)
    /\ [](\A i \in 1..Len(log) :
             log[i].msg = "starting" => (i = 1 /\ ticks = 0))

C16_Witness ==
    /\ pc = "get_capacity"
    /\ ticks = 0
    /\ store = <<" ", "\t">> \o CanonicalText(InhibitCharge) \o <<" ">>
    /\ log = <<[level |-> "info", msg |-> "starting", be |-> InhibitCharge]>>

\* The order of the statements of main(): each pair is a statement and one
\* that may run right after it.
StatementOrder ==
    {<<"startup", "get_capacity">>,
     <<"get_capacity", "get_behaviour">>,
     <<"get_behaviour", "calc_behaviour">>,
     <<"calc_behaviour", "compare">>,
     <<"compare", "set_behaviour">>,
     <<"compare", "sleep">>,
     <<"set_behaviour", "sleep">>,
     <<"sleep", "get_capacity">>}

\* C17: within an iteration the steps come in the order read capacity, read
\* behaviour, compute, optional write, sleep (a failing read or write ends
\* the program instead); an iteration begins with none of the three locals
\* set, takes its capacity from the text it reads from the capacity file
\* and its behaviour from the file as it is when it reads it, whoever wrote
\* it, and decides from these two values alone.
C17_FixedOrderFreshReads ==
    /\ [][pc' # pc
             => \/ <<pc, pc'>> \in StatementOrder
                \/ /\ pc' = "exit_err"
                   /\ pc \in {"startup", "get_capacity", "get_behaviour",
                              "set_behaviour"}]_vars
    /\ [](pc = "get_capacity" => (cap = "none" /\ be = "none" /\ be_new = "none"))
    /\ [][(pc = "get_capacity" /\ pc' = "get_behaviour")
             => Ok(cap') = parse_i8(trim(cap_text'))]_vars
    /\ [][(pc = "get_behaviour" /\ pc' = "calc_behaviour")
             => (CanonicalText(be') = trim(store) /\ cap' = cap)]_vars
    /\ [][(pc = "calc_behaviour" /\ pc' # pc)
             => (be_new' = DecisionTable(cap, be) /\ cap' = cap /\ be' = be)]_vars

\* The previous iteration read a capacity above 80 and left ForceDischarge
\* in the file; somebody else has put "auto" there since, and this
\* iteration has read Auto.
C17_Witness ==
    /\ pc = "calc_behaviour"
    /\ ticks >= 1
    /\ watch = "hold"
    /\ cap = 75
    /\ be = Auto

\* Whether the log holds a record of a change of behaviour.
HasSettingRecord == \E i \in 1..Len(log) : log[i].msg = "setting"

\* C18 as stated: the informational record of a change is emitted only for
\* a change that was written: whenever the log of an iteration holds it,
\* set_behaviour has succeeded in that iteration.
C18_Original == HasSettingRecord => pc = "sleep"

\* C18 as amended: the informational record of a change is emitted before
\* the write is attempted: it is the latest record when set_behaviour
\* starts, neither a successful nor a failed write adds or removes a
\* record, so an iteration whose write fails has emitted it; an iteration
\* that completes holds it exactly when the behaviour changed.
C18_RecordBeforeWrite ==
    /\ [](pc = "set_behaviour"
             => log[Len(log)] = [level |-> "info", msg |-> "setting",
                                 be_new |-> be_new, be |-> be, cap |-> cap])
    /\ [][(pc = "set_behaviour" /\ pc' # pc) => log' = log]_vars
    /\ [][(pc = "set_behaviour" /\ pc' = "exit_err")
             => log'[Len(log')].msg = "setting"]_vars
    /\ [](HasSettingRecord => pc \in {"set_behaviour", "sleep", "exit_err"})
    /\ [](pc = "sleep" => (HasSettingRecord <=> be # be_new))

\* A write has failed, the record of the change is in the log.
C18_Witness ==
    /\ pc = "exit_err"
    /\ err = "io"
    /\ HasSettingRecord
    /\ log[Len(log)].be_new = ForceDischarge
    /\ store = CanonicalText(Auto)

\* C19: with the program as the only writer, over a run of consecutive
\* iterations whose readings all lie in 70..80 the program writes the file
\* at most once, and from that write to the end of the run the file holds
\* InhibitCharge.
C19_NoOscillationInBand ==
    /\ band_writes <= 1
    /\ band_writes = 1 => store = CanonicalText(InhibitCharge)

\* The first iteration of the run wrote, the next one found InhibitCharge
\* and left it.
C19_Witness ==
    /\ pc = "sleep"
    /\ band_writes = 1
    /\ ticks >= 1
    /\ cap = 70
    /\ be = InhibitCharge
    /\ be_new = InhibitCharge

\* C20: calc_behaviour is idempotent in its behaviour argument: applied to
\* the capacity and the behaviour it has just computed it gives that
\* behaviour again; and with the program as the only writer an iteration
\* that reads the capacity the previous iteration read writes nothing.
C20_Idempotent ==
    /\ Decided => calc_behaviour(cap, be_new) = be_new
    /\ (Decided /\ repeat) => be = be_new
    /\ repeat => pc # "set_behaviour"

\* The first iteration read 80 with Auto and wrote InhibitCharge, the
\* second reads 80 again and writes nothing.
C20_Witness ==
    /\ pc = "sleep"
    /\ ticks = 1
    /\ repeat
    /\ cap = 80
    /\ watch = "idle"
    /\ be = InhibitCharge
    /\ be_new = InhibitCharge

====
